---------------------------- MODULE Spec2Model ----------------------------
(***************************************************************************)
(* PuchMatch matchmaking engine (src/main.py): the in-memory waiting       *)
(* queue, the pairing table, the per-user inboxes and the per-user         *)
(* metadata, with the six endpoints join_chat, send_message, get_messages, *)
(* skip_user, leave and status.                                            *)
(*                                                                         *)
(* A string (user id, nickname, message text) is the sequence of the       *)
(* Unicode code points of its characters, as a Python str is: "hi" is       *)
(* <<104, 105>>.  Slicing (user_id[-4:]) and str.strip() are computed on    *)
(* it.  A Python Optional value is a set: {} is None and {x} is the value   *)
(* x.  A dict is a function whose DOMAIN is its key set.                    *)
(***************************************************************************)
EXTENDS Integers, Sequences, FiniteSets, TLC

VARIABLES
    waiting_queue,  \* deque of user ids waiting to be paired
    active_pairs,   \* dict user_id -> partner_id
    inbox,          \* dict user_id -> list of messages
    meta,           \* dict user_id -> {"nickname": ...}
    last,           \* the call most recently answered, with its response
    threads,        \* per worker thread: the call it is running and its locals
    detached,       \* list objects no longer in inbox that a thread still holds
    calls           \* number of calls started by the worker threads

vars == <<waiting_queue, active_pairs, inbox, meta, last, threads, detached, calls>>

-----------------------------------------------------------------------------
(* Bounds of the model *)

\* The inboxes hold at most this many unread messages in total (a call that
\* would buffer more is not taken).
MaxMessages == 2

\* The worker threads start at most this many calls in all.
MaxCalls == 4

\* In the specification of the waiting order the three users make at most this
\* many calls in all.
MaxArrivals == 3

-----------------------------------------------------------------------------
(* Values *)

None == {}

Some(x) == {x}

\* The value held by a non-None Optional.
The(o) == CHOOSE x \in o : TRUE

EmptyId == <<>>

\* "a"
IdA == <<97>>

\* "bobby"
IdBobby == <<98, 111, 98, 98, 121>>

\* The caller-supplied ids: opaque strings, the empty string included.
Users == {EmptyId, IdA, IdBobby}

\* The nickname argument of join_chat: absent or empty.
Nicknames == {None, Some(<<>>)}

\* The characters str.strip() removes, those for which str.isspace() holds:
\* U+0009..000D, U+001C..001F, U+0020, U+0085, U+00A0, U+1680, U+2000..200A,
\* U+2028, U+2029, U+202F, U+205F and U+3000.
Whitespace ==
    (9..13) \cup (28..31) \cup {32, 133, 160, 5760} \cup (8192..8202)
        \cup {8232, 8233, 8239, 8287, 12288}

\* The texts handed to send_message: "", " \f" (space, form feed), "h",
\* "\th\u2003" (tab, h, em space) and "hi".
Texts == {<<>>, <<32, 12>>, <<104>>, <<9, 104, 8195>>, <<104, 105>>}

\* "system"
SystemSender == <<115, 121, 115, 116, 101, 109>>

\* "Your partner disconnected."
DisconnectText ==
    <<89, 111, 117, 114, 32, 112, 97, 114, 116, 110, 101, 114, 32,
      100, 105, 115, 99, 111, 110, 110, 101, 99, 116, 101, 100, 46>>

\* "User-"
UserPrefix == <<85, 115, 101, 114, 45>>

JoinIcebreaker == "If you could have lunch with anyone (alive), who would it be?"

AlreadyIcebreaker == "What's something you love talking about?"

-----------------------------------------------------------------------------
(* Python primitives *)

\* bool(s) of a str: the empty string is falsy.
StrTruthy(s) == s /= <<>>

\* bool(o) of an Optional[str]: None and the empty string are falsy.
OptTruthy(o) == o /= None /\ StrTruthy(The(o))

\* s[-4:]
Last4(s) == IF Len(s) <= 4 THEN s ELSE SubSeq(s, Len(s) - 3, Len(s))

RECURSIVE LStrip(_)
LStrip(s) ==
    IF s /= <<>> /\ Head(s) \in Whitespace THEN LStrip(Tail(s)) ELSE s

RECURSIVE RStrip(_)
RStrip(s) ==
    IF s /= <<>> /\ s[Len(s)] \in Whitespace
    THEN RStrip(SubSeq(s, 1, Len(s) - 1))
    ELSE s

\* str.strip()
Strip(s) == RStrip(LStrip(s))

EmptyDict == [k \in {} |-> k]

DictSet(d, k, v) == [x \in DOMAIN d \cup {k} |-> IF x = k THEN v ELSE d[x]]

DictDel(d, k) == [x \in DOMAIN d \ {k} |-> d[x]]

\* dict.pop(k, None) / dict.get(k): the value as an Optional.
DictGet(d, k) == IF k \in DOMAIN d THEN Some(d[k]) ELSE None

\* x in deque
InQueue(q, x) == \E i \in 1..Len(q) : q[i] = x

\* list(q).index(x): zero-based position of the first occurrence.
IndexOf(q, x) == (CHOOSE i \in 1..Len(q) : q[i] = x /\ \A j \in 1..(i - 1) : q[j] /= x) - 1

\* deque.remove(x): removes the first occurrence.
RemoveFirst(q, x) ==
    LET i == IndexOf(q, x) + 1
    IN  SubSeq(q, 1, i - 1) \o SubSeq(q, i + 1, Len(q))

-----------------------------------------------------------------------------
(* The shared state as one value, and the helpers of src/main.py on it *)

\* The four module-level structures of src/main.py.
St == [q |-> waiting_queue, ap |-> active_pairs, ib |-> inbox, mt |-> meta]

\* {"from": "system", "text": "Your partner disconnected."}
SystemMessage == [from |-> SystemSender, text |-> DisconnectText]

\* nickname or f"User-{user_id[-4:]}"
DefaultNickname(user_id, nickname) ==
    IF OptTruthy(nickname) THEN The(nickname) ELSE UserPrefix \o Last4(user_id)

make_user_if_missing(S, user_id, nickname) ==
    LET ib1 == IF user_id \notin DOMAIN S.ib
               THEN DictSet(S.ib, user_id, <<>>)
               ELSE S.ib
        mt1 == IF user_id \notin DOMAIN S.mt
               THEN DictSet(S.mt, user_id,
                            [nickname |-> DefaultNickname(user_id, nickname)])
               ELSE S.mt
    IN  [S EXCEPT !.ib = ib1, !.mt = mt1]

pair_two(S, user_a, user_b) ==
    LET S1 == [S EXCEPT !.ap = DictSet(DictSet(@, user_a, user_b), user_b, user_a)]
    IN  make_user_if_missing(make_user_if_missing(S1, user_a, None), user_b, None)

\* inbox.setdefault(k, []).append(m)
InboxAppend(ib, k, m) ==
    DictSet(ib, k, Append(IF k \in DOMAIN ib THEN ib[k] ELSE <<>>, m))

unpair(S, user_id) ==
    LET partner == DictGet(S.ap, user_id)
        S1 == [S EXCEPT !.ap = DictDel(@, user_id)]
    IN  IF OptTruthy(partner)
        THEN [S1 EXCEPT !.ap = DictDel(@, The(partner)),
                        !.ib = InboxAppend(@, The(partner), SystemMessage)]
        ELSE S1

-----------------------------------------------------------------------------
(* The endpoints, each as a function from the state before the call to the *)
(* state after it and the response                                         *)

Waiting == [status |-> "waiting"]

\* Mutant of join_chat: the popped partner is read from the head of the queue
\* but not removed from it.
join_chat_head_kept(S, user_id, nickname) ==
    LET S1 == make_user_if_missing(S, user_id, nickname)
    IN  IF user_id \in DOMAIN S1.ap
        THEN [st |-> S1,
              ret |-> [status |-> "already_matched",
                       partner_id |-> S1.ap[user_id],
                       icebreaker |-> AlreadyIcebreaker]]
        ELSE IF InQueue(S1.q, user_id)
        THEN [st |-> S1,
              ret |-> [status |-> "waiting",
                       queue_position |-> IndexOf(S1.q, user_id)]]
        ELSE IF S1.q /= <<>>
        THEN LET partner == Head(S1.q)
             IN  IF partner = user_id
                 THEN [st |-> S1, ret |-> Waiting]
                 ELSE [st |-> pair_two(S1, user_id, partner),
                       ret |-> [status |-> "matched",
                                partner_id |-> partner,
                                icebreaker |-> JoinIcebreaker]]
        ELSE [st |-> [S1 EXCEPT !.q = Append(@, user_id)], ret |-> Waiting]

\* Mutant of join_chat: the test "already waiting" of line 124 is missing.
join_chat_unchecked(S, user_id, nickname) ==
    LET S1 == make_user_if_missing(S, user_id, nickname)
    IN  IF user_id \in DOMAIN S1.ap
        THEN [st |-> S1,
              ret |-> [status |-> "already_matched",
                       partner_id |-> S1.ap[user_id],
                       icebreaker |-> AlreadyIcebreaker]]
        ELSE IF S1.q /= <<>>
        THEN LET partner == Head(S1.q)
                 S2 == [S1 EXCEPT !.q = Tail(@)]
             IN  IF partner = user_id
                 THEN [st |-> [S2 EXCEPT !.q = <<partner>> \o @], ret |-> Waiting]
                 ELSE [st |-> pair_two(S2, user_id, partner),
                       ret |-> [status |-> "matched",
                                partner_id |-> partner,
                                icebreaker |-> JoinIcebreaker]]
        ELSE [st |-> [S1 EXCEPT !.q = Append(@, user_id)], ret |-> Waiting]

join_chat(S, user_id, nickname) ==
    LET S1 == make_user_if_missing(S, user_id, nickname)
    IN  IF user_id \in DOMAIN S1.ap
        THEN [st |-> S1,
              ret |-> [status |-> "already_matched",
                       partner_id |-> S1.ap[user_id],
                       icebreaker |-> AlreadyIcebreaker]]
        ELSE IF InQueue(S1.q, user_id)
        THEN [st |-> S1,
              ret |-> [status |-> "waiting",
                       queue_position |-> IndexOf(S1.q, user_id)]]
        ELSE IF S1.q /= <<>>
        THEN LET partner == Head(S1.q)
                 S2 == [S1 EXCEPT !.q = Tail(@)]
             IN  IF partner = user_id
                 THEN [st |-> [S2 EXCEPT !.q = <<partner>> \o @], ret |-> Waiting]
                 ELSE [st |-> pair_two(S2, user_id, partner),
                       ret |-> [status |-> "matched",
                                partner_id |-> partner,
                                icebreaker |-> JoinIcebreaker]]
        ELSE [st |-> [S1 EXCEPT !.q = Append(@, user_id)], ret |-> Waiting]

\* HTTPException(status_code=400, detail="Empty message")
InvalidInput == [status_code |-> 400, detail |-> "Empty message"]

\* HTTPException(status_code=400, detail="You are not matched")
NotMatched == [status_code |-> 400, detail |-> "You are not matched"]

\* Mutant of send_message: the text is stored as received, not stripped.
send_message_unstripped(S, user_id, payload_text) ==
    IF ~StrTruthy(Strip(payload_text))
    THEN [st |-> S, ret |-> InvalidInput]
    ELSE IF user_id \notin DOMAIN S.ap
    THEN [st |-> S, ret |-> NotMatched]
    ELSE LET partner == S.ap[user_id]
         IN  [st |-> [S EXCEPT !.ib = InboxAppend(@, partner,
                                          [from |-> user_id, text |-> payload_text])],
              ret |-> [status |-> "sent", to |-> partner]]

\* Mutant of send_message: the sender's pairing is checked before the text.
send_message_pairing_first(S, user_id, payload_text) ==
    LET text == Strip(payload_text)
    IN  IF user_id \notin DOMAIN S.ap
        THEN [st |-> S, ret |-> NotMatched]
        ELSE IF ~StrTruthy(text)
        THEN [st |-> S, ret |-> InvalidInput]
        ELSE LET partner == S.ap[user_id]
             IN  [st |-> [S EXCEPT !.ib = InboxAppend(@, partner,
                                              [from |-> user_id, text |-> text])],
                  ret |-> [status |-> "sent", to |-> partner]]

send_message(S, user_id, payload_text) ==
    LET text == Strip(payload_text)
    IN  IF ~StrTruthy(text)
        THEN [st |-> S, ret |-> InvalidInput]
        ELSE IF user_id \notin DOMAIN S.ap
        THEN [st |-> S, ret |-> NotMatched]
        ELSE LET partner == S.ap[user_id]
             IN  [st |-> [S EXCEPT !.ib = InboxAppend(@, partner,
                                              [from |-> user_id, text |-> text])],
                  ret |-> [status |-> "sent", to |-> partner]]

\* Mutant of get_messages: the inbox is returned but not cleared.
get_messages_not_cleared(S, user_id) ==
    IF user_id \notin DOMAIN S.ib
    THEN [st |-> S, ret |-> [messages |-> <<>>]]
    ELSE [st |-> S, ret |-> [messages |-> S.ib[user_id]]]

get_messages(S, user_id) ==
    IF user_id \notin DOMAIN S.ib
    THEN [st |-> S, ret |-> [messages |-> <<>>]]
    ELSE [st |-> [S EXCEPT !.ib = DictSet(@, user_id, <<>>)],
          ret |-> [messages |-> S.ib[user_id]]]

\* Mutant of skip_user: after the unpairing the caller is put at the tail of
\* the queue instead of being paired again.
skip_user_no_repair(S, user_id) ==
    IF InQueue(S.q, user_id)
    THEN [st |-> S, ret |-> Waiting]
    ELSE LET S1 == IF user_id \in DOMAIN S.ap
                   THEN LET partner == DictGet(S.ap, user_id)
                            Su == unpair(S, user_id)
                        IN  IF OptTruthy(partner)
                            THEN [Su EXCEPT !.q = <<The(partner)>> \o @]
                            ELSE Su
                   ELSE S
             S2 == make_user_if_missing(S1, user_id, None)
         IN  IF InQueue(S2.q, user_id)
             THEN [st |-> S2, ret |-> Waiting]
             ELSE [st |-> [S2 EXCEPT !.q = Append(@, user_id)], ret |-> Waiting]

skip_user(S, user_id) ==
    IF InQueue(S.q, user_id)
    THEN [st |-> S, ret |-> Waiting]
    ELSE LET S1 == IF user_id \in DOMAIN S.ap
                   THEN LET partner == DictGet(S.ap, user_id)
                            Su == unpair(S, user_id)
                        IN  IF OptTruthy(partner)
                            THEN [Su EXCEPT !.q = <<The(partner)>> \o @]
                            ELSE Su
                   ELSE S
             S2 == make_user_if_missing(S1, user_id, None)
         IN  IF InQueue(S2.q, user_id)
             THEN [st |-> S2, ret |-> Waiting]
             ELSE IF S2.q /= <<>>
             THEN LET partner == Head(S2.q)
                      S3 == [S2 EXCEPT !.q = Tail(@)]
                  IN  IF partner = user_id
                      THEN [st |-> [S3 EXCEPT !.q = <<partner>> \o @], ret |-> Waiting]
                      ELSE [st |-> pair_two(S3, user_id, partner),
                            ret |-> [status |-> "matched", partner_id |-> partner]]
             ELSE [st |-> [S2 EXCEPT !.q = Append(@, user_id)], ret |-> Waiting]

\* Mutant of leave: the pair is dissolved only when the user was not waiting
\* (elif instead of if at line 209).
leave_queue_or_pair(S, user_id) ==
    LET S2 == IF InQueue(S.q, user_id)
              THEN [S EXCEPT !.q = RemoveFirst(@, user_id)]
              ELSE IF user_id \in DOMAIN S.ap THEN unpair(S, user_id) ELSE S
    IN  [st |-> [S2 EXCEPT !.ib = DictDel(@, user_id), !.mt = DictDel(@, user_id)],
         ret |-> [status |-> "left"]]

leave(S, user_id) ==
    LET S1 == IF InQueue(S.q, user_id)
              THEN [S EXCEPT !.q = RemoveFirst(@, user_id)]
              ELSE S
        S2 == IF user_id \in DOMAIN S1.ap THEN unpair(S1, user_id) ELSE S1
    IN  [st |-> [S2 EXCEPT !.ib = DictDel(@, user_id), !.mt = DictDel(@, user_id)],
         ret |-> [status |-> "left"]]

status(S, user_id) ==
    IF user_id \in DOMAIN S.ap
    THEN [st |-> S, ret |-> [status |-> "matched", partner_id |-> S.ap[user_id]]]
    ELSE IF InQueue(S.q, user_id)
    THEN [st |-> S, ret |-> [status |-> "waiting",
                             queue_position |-> IndexOf(S.q, user_id)]]
    ELSE [st |-> S, ret |-> [status |-> "not_connected"]]

-----------------------------------------------------------------------------
(* Threads of the server (used by the concurrent specification) *)

\* The worker threads that run the endpoints (def endpoints run in a pool).
Threads == {1, 2}

\* The ids the concurrent calls are made with: none of them empty, so that
\* what goes wrong there goes wrong by interleaving alone.
ConcUsers == {IdA, IdBobby}

\* A reference to a list object: the list that inbox[user] holds now, or a
\* list that has been taken out of inbox and is numbered n in detached.
LiveRef(u) == [kind |-> "live", user |-> u, n |-> 0]

DetRef(n) == [kind |-> "det", user |-> EmptyId, n |-> n]

\* A thread that runs no call: every local at its default.
Idle ==
    [pc |-> "idle", op |-> "none", user_id |-> EmptyId, text |-> <<>>,
     partner |-> None, un_partner |-> None, ref |-> None,
     mk_user |-> EmptyId, mk_nick |-> None, mk_ret |-> "idle",
     un_ret |-> "idle", ret |-> [status |-> "none"]]

-----------------------------------------------------------------------------
(* Atomic execution: every call runs to completion before the next starts *)

\* The completed call most recently answered: its endpoint, its user_id and
\* its response.
Call(op, user_id, ret) == [op |-> op, user_id |-> user_id, ret |-> ret]

NoCall == Call("none", EmptyId, [status |-> "none"])

Init ==
    /\ waiting_queue = <<>>
    /\ active_pairs = EmptyDict
    /\ inbox = EmptyDict
    /\ meta = EmptyDict
    /\ last = NoCall
    /\ threads = [t \in Threads |-> Idle]
    /\ detached = EmptyDict
    /\ calls = 0

RECURSIVE TotalLen(_, _)
TotalLen(ib, ks) ==
    IF ks = {} THEN 0
    ELSE LET k == CHOOSE x \in ks : TRUE
         IN  Len(ib[k]) + TotalLen(ib, ks \ {k})

InboxBounded(S) == TotalLen(S.ib, DOMAIN S.ib) <= MaxMessages

\* The state after a call, and its response.
Commit(r, call) ==
    /\ InboxBounded(r.st)
    /\ waiting_queue' = r.st.q
    /\ active_pairs' = r.st.ap
    /\ inbox' = r.st.ib
    /\ meta' = r.st.mt
    /\ last' = call
    /\ UNCHANGED <<threads, detached, calls>>

Join ==
    \E u \in Users, n \in Nicknames :
        LET r == join_chat(St, u, n)
        IN  Commit(r, Call("join_chat", u, r.ret))

\* The call send_message(user_id = u, text = t).
SendOf(u, t) ==
    LET r == send_message(St, u, t)
    IN  Commit(r, Call("send_message", u, r.ret))

SendMessage == \E u \in Users, t \in Texts : SendOf(u, t)

GetMessages ==
    \E u \in Users :
        LET r == get_messages(St, u)
        IN  Commit(r, Call("get_messages", u, r.ret))

Skip ==
    \E u \in Users :
        LET r == skip_user(St, u)
        IN  Commit(r, Call("skip_user", u, r.ret))

Leave ==
    \E u \in Users :
        LET r == leave(St, u)
        IN  Commit(r, Call("leave", u, r.ret))

Status ==
    \E u \in Users :
        LET r == status(St, u)
        IN  Commit(r, Call("status", u, r.ret))

Next == Join \/ SendMessage \/ GetMessages \/ Skip \/ Leave \/ Status

Spec == Init /\ [][Next]_vars

-----------------------------------------------------------------------------
(* Concurrent execution: the endpoints are plain def functions, which the  *)
(* server runs on worker threads with no lock around the shared            *)
(* structures.  A thread can be preempted between any two operations on    *)
(* them; one deque or dict operation is atomic.  Each step below is one    *)
(* such operation, named by its line in src/main.py, together with the     *)
(* thread-local computation that follows it.                               *)

\* The shared structures, the threads and the detached lists as one value.
World ==
    [q |-> waiting_queue, ap |-> active_pairs, ib |-> inbox, mt |-> meta,
     th |-> threads, det |-> detached]

Goto(W, t, pc) == [W EXCEPT !.th[t].pc = pc]

\* The call of thread t returns ret (or raises, for a 500 response).
Done(W, t, ret) == [W EXCEPT !.th[t].pc = "done", !.th[t].ret = ret]

\* An exception no handler catches: the server answers 500.
Raised(exc) == [status_code |-> 500, detail |-> exc]

\* The smallest number that names no detached list.
FreshDet(det) == CHOOSE n \in 0..Cardinality(DOMAIN det) : n \notin DOMAIN det

\* inbox[u] is about to be replaced or removed: the list it holds lives on, as
\* a detached list, for the threads that hold a reference to it.
Detach(W, u, cause) ==
    LET holders == {t \in Threads : W.th[t].ref = Some(LiveRef(u))}
        n == FreshDet(W.det)
    IN  IF u \notin DOMAIN W.ib \/ holders = {}
        THEN W
        ELSE [W EXCEPT
                !.det = DictSet(@, n, [msgs |-> W.ib[u], by |-> cause]),
                !.th = [t \in Threads |->
                          IF t \in holders
                          THEN [W.th[t] EXCEPT !.ref = Some(DetRef(n))]
                          ELSE W.th[t]]]

\* The content of the list object r.
Deref(W, r) == IF r.kind = "live" THEN W.ib[r.user] ELSE W.det[r.n].msgs

\* list.append(m) on the list object r.
AppendRef(W, r, m) ==
    IF r.kind = "live"
    THEN [W EXCEPT !.ib[r.user] = Append(@, m)]
    ELSE [W EXCEPT !.det[r.n].msgs = Append(@, m)]

\* inbox.setdefault(k, []) by thread t, which keeps the list it returns.
SetDefault(W, t, k) ==
    LET W1 == IF k \in DOMAIN W.ib THEN W ELSE [W EXCEPT !.ib = DictSet(@, k, <<>>)]
    IN  [W1 EXCEPT !.th[t].ref = Some(LiveRef(k))]

\* Detached lists that no thread references are garbage.
Collect(det, ths) ==
    [n \in {m \in DOMAIN det : \E t \in Threads : ths[t].ref = Some(DetRef(m))}
        |-> det[n]]

\* The state after a step of thread t; a call that has returned is answered.
Apply(t, W) ==
    LET fin == W.th[t].pc = "done"
        ths == IF fin THEN [W.th EXCEPT ![t] = Idle] ELSE W.th
    IN  /\ waiting_queue' = W.q
        /\ active_pairs' = W.ap
        /\ inbox' = W.ib
        /\ meta' = W.mt
        /\ threads' = ths
        /\ detached' = Collect(W.det, ths)
        /\ last' = IF fin
                   THEN Call(W.th[t].op, W.th[t].user_id, W.th[t].ret)
                   ELSE last
        /\ UNCHANGED calls

At(t, pc) == threads[t].pc = pc

\* Thread t takes a request: op(user_id, ...) starts at label pc.
Begin(t, op, u, pc) ==
    [World EXCEPT !.th[t].op = op, !.th[t].user_id = u, !.th[t].pc = pc]

\* An idle thread takes a request.
Accept(t, W) ==
    /\ At(t, "idle")
    /\ calls < MaxCalls
    /\ calls' = calls + 1
    /\ waiting_queue' = W.q
    /\ active_pairs' = W.ap
    /\ inbox' = W.ib
    /\ meta' = W.mt
    /\ detached' = W.det
    /\ threads' = IF W.th[t].pc = "done" THEN [W.th EXCEPT ![t] = Idle] ELSE W.th
    /\ last' = IF W.th[t].pc = "done"
               THEN Call(W.th[t].op, W.th[t].user_id, W.th[t].ret)
               ELSE last

\* make_user_if_missing(user, nick) is called; it returns to label ret.
CallMk(W, t, user, nick, ret) ==
    [W EXCEPT !.th[t].pc = "m66", !.th[t].mk_user = user,
              !.th[t].mk_nick = nick, !.th[t].mk_ret = ret]

\* make_user_if_missing returns: to join_chat (line 119), to pair_two between
\* its two calls (line 77), to the caller of pair_two, or to skip_user (185).
AfterMk(W, t) ==
    LET th == W.th[t]
        W1 == [W EXCEPT !.th[t].mk_user = EmptyId, !.th[t].mk_nick = None,
                        !.th[t].mk_ret = "idle"]
    IN  CASE th.mk_ret = "j119" -> Goto(W1, t, "j119")
          [] th.mk_ret = "p77" -> CallMk(W1, t, The(th.partner), None, "p_ret")
          [] th.mk_ret = "p_ret" /\ th.op = "join_chat" ->
                Done(W1, t, [status |-> "matched", partner_id |-> The(th.partner),
                             icebreaker |-> JoinIcebreaker])
          [] th.mk_ret = "p_ret" /\ th.op = "skip_user" ->
                Done(W1, t, [status |-> "matched", partner_id |-> The(th.partner)])
          [] th.mk_ret = "k185" -> Goto(W1, t, "k185")

\* unpair returns: to skip_user (line 180) or to leave (line 212).
AfterUnpair(W, t) ==
    LET th == W.th[t]
        W1 == [W EXCEPT !.th[t].un_partner = None, !.th[t].un_ret = "idle",
                        !.th[t].ref = None]
    IN  CASE th.un_ret = "k180" ->
                IF OptTruthy(th.partner)
                THEN Goto(W1, t, "k181")
                ELSE CallMk(W1, t, th.user_id, None, "k185")
          [] th.un_ret = "l212" -> Goto(W1, t, "l212")

(* Requests *)

StartJoin(t) ==
    \E u \in ConcUsers, n \in Nicknames :
        Accept(t, CallMk(Begin(t, "join_chat", u, "m66"), t, u, n, "j119"))

\* Lines 146-149 touch no shared structure: a blank text is refused at once.
StartSend(t) ==
    \E u \in ConcUsers, x \in Texts :
        LET text == Strip(x)
            W == [Begin(t, "send_message", u, "s151") EXCEPT !.th[t].text = text]
        IN  Accept(t, IF ~StrTruthy(text) THEN Done(W, t, InvalidInput) ELSE W)

StartGet(t) == \E u \in ConcUsers : Accept(t, Begin(t, "get_messages", u, "g161"))

StartSkip(t) == \E u \in ConcUsers : Accept(t, Begin(t, "skip_user", u, "k172"))

StartLeave(t) == \E u \in ConcUsers : Accept(t, Begin(t, "leave", u, "l204"))

StartStatus(t) == \E u \in ConcUsers : Accept(t, Begin(t, "status", u, "t219"))

(* make_user_if_missing *)

M66(t) ==
    /\ At(t, "m66")
    /\ Apply(t, IF threads[t].mk_user \notin DOMAIN inbox
                THEN Goto(World, t, "m67")
                ELSE Goto(World, t, "m68"))

M67(t) ==
    /\ At(t, "m67")
    /\ LET u == threads[t].mk_user
           W == Detach(World, u, "make_user_if_missing")
       IN  Apply(t, Goto([W EXCEPT !.ib = DictSet(@, u, <<>>)], t, "m68"))

M68(t) ==
    /\ At(t, "m68")
    /\ Apply(t, IF threads[t].mk_user \notin DOMAIN meta
                THEN Goto(World, t, "m69")
                ELSE AfterMk(World, t))

M69(t) ==
    /\ At(t, "m69")
    /\ LET u == threads[t].mk_user
           nick == [nickname |-> DefaultNickname(u, threads[t].mk_nick)]
       IN  Apply(t, AfterMk([World EXCEPT !.mt = DictSet(@, u, nick)], t))

(* pair_two(user_id, partner) *)

P73(t) ==
    /\ At(t, "p73")
    /\ Apply(t, Goto([World EXCEPT !.ap = DictSet(@, threads[t].user_id,
                                                  The(threads[t].partner))],
                     t, "p74"))

P74(t) ==
    /\ At(t, "p74")
    /\ Apply(t, CallMk([World EXCEPT !.ap = DictSet(@, The(threads[t].partner),
                                                    threads[t].user_id)],
                       t, threads[t].user_id, None, "p77"))

(* unpair(user_id) *)

U81(t) ==
    /\ At(t, "u81")
    /\ LET u == threads[t].user_id
           partner == DictGet(active_pairs, u)
           W == [World EXCEPT !.ap = DictDel(@, u), !.th[t].un_partner = partner]
       IN  Apply(t, IF OptTruthy(partner) THEN Goto(W, t, "u83") ELSE AfterUnpair(W, t))

U83(t) ==
    /\ At(t, "u83")
    /\ Apply(t, Goto([World EXCEPT !.ap = DictDel(@, The(threads[t].un_partner))],
                     t, "u85a"))

U85a(t) ==
    /\ At(t, "u85a")
    /\ Apply(t, Goto(SetDefault(World, t, The(threads[t].un_partner)), t, "u85b"))

U85b(t) ==
    /\ At(t, "u85b")
    /\ Apply(t, AfterUnpair(AppendRef(World, The(threads[t].ref), SystemMessage), t))

(* join_chat, after make_user_if_missing(user_id, nickname) of line 116 *)

J119(t) ==
    /\ At(t, "j119")
    /\ Apply(t, IF threads[t].user_id \in DOMAIN active_pairs
                THEN Goto(World, t, "j120")
                ELSE Goto(World, t, "j124"))

J120(t) ==
    /\ At(t, "j120")
    /\ LET u == threads[t].user_id
       IN  Apply(t, IF u \in DOMAIN active_pairs
                    THEN Done(World, t, [status |-> "already_matched",
                                         partner_id |-> active_pairs[u],
                                         icebreaker |-> AlreadyIcebreaker])
                    ELSE Done(World, t, Raised("KeyError")))

J124(t) ==
    /\ At(t, "j124")
    /\ Apply(t, IF InQueue(waiting_queue, threads[t].user_id)
                THEN Goto(World, t, "j125")
                ELSE Goto(World, t, "j128"))

J125(t) ==
    /\ At(t, "j125")
    /\ LET u == threads[t].user_id
       IN  Apply(t, IF InQueue(waiting_queue, u)
                    THEN Done(World, t, [status |-> "waiting",
                                         queue_position |-> IndexOf(waiting_queue, u)])
                    ELSE Done(World, t, Raised("ValueError")))

J128(t) ==
    /\ At(t, "j128")
    /\ Apply(t, IF waiting_queue /= <<>>
                THEN Goto(World, t, "j129")
                ELSE Goto(World, t, "j140"))

\* Mutant of PopLeft: the partner is taken from the tail of the queue
\* (waiting_queue.pop() instead of popleft()).
PopRight(W, t, same, other) ==
    IF W.q = <<>>
    THEN Done(W, t, Raised("IndexError"))
    ELSE LET partner == W.q[Len(W.q)]
             W1 == [W EXCEPT !.q = SubSeq(@, 1, Len(@) - 1),
                             !.th[t].partner = Some(partner)]
         IN  IF partner = W.th[t].user_id
             THEN Goto(W1, t, same)
             ELSE Goto(W1, t, other)

\* partner = waiting_queue.popleft(), then the test of line 131.
PopLeft(W, t, same, other) ==
    IF W.q = <<>>
    THEN Done(W, t, Raised("IndexError"))
    ELSE LET partner == Head(W.q)
             W1 == [W EXCEPT !.q = Tail(@), !.th[t].partner = Some(partner)]
         IN  IF partner = W.th[t].user_id
             THEN Goto(W1, t, same)
             ELSE Goto(W1, t, other)

J129(t) == At(t, "j129") /\ Apply(t, PopLeft(World, t, "j133", "p73"))

J133(t) ==
    /\ At(t, "j133")
    /\ Apply(t, Done([World EXCEPT !.q = <<The(threads[t].partner)>> \o @],
                     t, Waiting))

J140(t) ==
    /\ At(t, "j140")
    /\ Apply(t, Done([World EXCEPT !.q = Append(@, threads[t].user_id)], t, Waiting))

(* send_message, after the text test of lines 147-149 *)

S151(t) ==
    /\ At(t, "s151")
    /\ Apply(t, IF threads[t].user_id \notin DOMAIN active_pairs
                THEN Done(World, t, NotMatched)
                ELSE Goto(World, t, "s154"))

S154(t) ==
    /\ At(t, "s154")
    /\ LET u == threads[t].user_id
       IN  Apply(t, IF u \in DOMAIN active_pairs
                    THEN Goto([World EXCEPT !.th[t].partner = Some(active_pairs[u])],
                              t, "s155a")
                    ELSE Done(World, t, Raised("KeyError")))

\* Line 155, first half: inbox.setdefault(partner, []).
S155a(t) ==
    /\ At(t, "s155a")
    /\ Apply(t, Goto(SetDefault(World, t, The(threads[t].partner)), t, "s155b"))

\* Line 155, second half: .append({...}); then the return of line 156.
S155b(t) ==
    /\ At(t, "s155b")
    /\ LET th == threads[t]
           W == AppendRef(World, The(th.ref), [from |-> th.user_id, text |-> th.text])
       IN  Apply(t, Done(W, t, [status |-> "sent", to |-> The(th.partner)]))

(* get_messages *)

G161(t) ==
    /\ At(t, "g161")
    /\ Apply(t, IF threads[t].user_id \notin DOMAIN inbox
                THEN Done(World, t, [messages |-> <<>>])
                ELSE Goto(World, t, "g163"))

\* msgs = inbox.get(user_id, []): the list in inbox, or a new empty list.
G163(t) ==
    /\ At(t, "g163")
    /\ LET u == threads[t].user_id
           n == FreshDet(detached)
       IN  Apply(t, IF u \in DOMAIN inbox
                    THEN Goto([World EXCEPT !.th[t].ref = Some(LiveRef(u))], t, "g164")
                    ELSE Goto([World EXCEPT
                                 !.det = DictSet(@, n, [msgs |-> <<>>, by |-> "new"]),
                                 !.th[t].ref = Some(DetRef(n))],
                              t, "g164"))

\* inbox[user_id] = []
G164(t) ==
    /\ At(t, "g164")
    /\ LET u == threads[t].user_id
           W == Detach(World, u, "get_messages")
       IN  Apply(t, Goto([W EXCEPT !.ib = DictSet(@, u, <<>>)], t, "g165"))

\* return {"messages": msgs}: the response holds what msgs holds now.
G165(t) ==
    /\ At(t, "g165")
    /\ Apply(t, Done(World, t, [messages |-> Deref(World, The(threads[t].ref))]))

(* skip_user *)

K172(t) ==
    /\ At(t, "k172")
    /\ Apply(t, IF InQueue(waiting_queue, threads[t].user_id)
                THEN Done(World, t, Waiting)
                ELSE Goto(World, t, "k176"))

K176(t) ==
    /\ At(t, "k176")
    /\ Apply(t, IF threads[t].user_id \in DOMAIN active_pairs
                THEN Goto(World, t, "k177")
                ELSE CallMk(World, t, threads[t].user_id, None, "k185"))

\* partner = active_pairs.get(user_id), then the call of unpair.
K177(t) ==
    /\ At(t, "k177")
    /\ Apply(t, Goto([World EXCEPT
                        !.th[t].partner = DictGet(active_pairs, threads[t].user_id),
                        !.th[t].un_ret = "k180"],
                     t, "u81"))

K181(t) ==
    /\ At(t, "k181")
    /\ Apply(t, CallMk([World EXCEPT !.q = <<The(threads[t].partner)>> \o @],
                       t, threads[t].user_id, None, "k185"))

K185(t) ==
    /\ At(t, "k185")
    /\ Apply(t, IF InQueue(waiting_queue, threads[t].user_id)
                THEN Done(World, t, Waiting)
                ELSE Goto(World, t, "k187"))

K187(t) ==
    /\ At(t, "k187")
    /\ Apply(t, IF waiting_queue /= <<>>
                THEN Goto(World, t, "k188")
                ELSE Goto(World, t, "k195"))

K188(t) == At(t, "k188") /\ Apply(t, PopLeft(World, t, "k190", "p73"))

K190(t) ==
    /\ At(t, "k190")
    /\ Apply(t, Done([World EXCEPT !.q = <<The(threads[t].partner)>> \o @],
                     t, Waiting))

K195(t) ==
    /\ At(t, "k195")
    /\ Apply(t, Done([World EXCEPT !.q = Append(@, threads[t].user_id)], t, Waiting))

(* leave *)

L204(t) ==
    /\ At(t, "l204")
    /\ Apply(t, IF InQueue(waiting_queue, threads[t].user_id)
                THEN Goto(World, t, "l205")
                ELSE Goto(World, t, "l209"))

\* waiting_queue.remove(user_id); the ValueError of a missing id is caught.
L205(t) ==
    /\ At(t, "l205")
    /\ LET u == threads[t].user_id
       IN  Apply(t, IF InQueue(waiting_queue, u)
                    THEN Goto([World EXCEPT !.q = RemoveFirst(@, u)], t, "l209")
                    ELSE Goto(World, t, "l209"))

L209(t) ==
    /\ At(t, "l209")
    /\ Apply(t, IF threads[t].user_id \in DOMAIN active_pairs
                THEN Goto([World EXCEPT !.th[t].un_ret = "l212"], t, "u81")
                ELSE Goto(World, t, "l212"))

L212(t) ==
    /\ At(t, "l212")
    /\ LET u == threads[t].user_id
           W == Detach(World, u, "leave")
       IN  Apply(t, Goto([W EXCEPT !.ib = DictDel(@, u)], t, "l213"))

L213(t) ==
    /\ At(t, "l213")
    /\ Apply(t, Done([World EXCEPT !.mt = DictDel(@, threads[t].user_id)],
                     t, [status |-> "left"]))

(* status *)

T219(t) ==
    /\ At(t, "t219")
    /\ Apply(t, IF threads[t].user_id \in DOMAIN active_pairs
                THEN Goto(World, t, "t220")
                ELSE Goto(World, t, "t221"))

T220(t) ==
    /\ At(t, "t220")
    /\ LET u == threads[t].user_id
       IN  Apply(t, IF u \in DOMAIN active_pairs
                    THEN Done(World, t, [status |-> "matched",
                                         partner_id |-> active_pairs[u]])
                    ELSE Done(World, t, Raised("KeyError")))

T221(t) ==
    /\ At(t, "t221")
    /\ Apply(t, IF InQueue(waiting_queue, threads[t].user_id)
                THEN Goto(World, t, "t222")
                ELSE Done(World, t, [status |-> "not_connected"]))

T222(t) ==
    /\ At(t, "t222")
    /\ LET u == threads[t].user_id
       IN  Apply(t, IF InQueue(waiting_queue, u)
                    THEN Done(World, t, [status |-> "waiting",
                                         queue_position |-> IndexOf(waiting_queue, u)])
                    ELSE Done(World, t, Raised("ValueError")))

NextConc ==
    \E t \in Threads :
        \/ StartJoin(t) \/ StartSend(t) \/ StartGet(t)
        \/ StartSkip(t) \/ StartLeave(t) \/ StartStatus(t)
        \/ M66(t) \/ M67(t) \/ M68(t) \/ M69(t)
        \/ P73(t) \/ P74(t)
        \/ U81(t) \/ U83(t) \/ U85a(t) \/ U85b(t)
        \/ J119(t) \/ J120(t) \/ J124(t) \/ J125(t)
        \/ J128(t) \/ J129(t) \/ J133(t) \/ J140(t)
        \/ S151(t) \/ S154(t) \/ S155a(t) \/ S155b(t)
        \/ G161(t) \/ G163(t) \/ G164(t) \/ G165(t)
        \/ K172(t) \/ K176(t) \/ K177(t) \/ K181(t) \/ K185(t)
        \/ K187(t) \/ K188(t) \/ K190(t) \/ K195(t)
        \/ L204(t) \/ L205(t) \/ L209(t) \/ L212(t) \/ L213(t)
        \/ T219(t) \/ T220(t) \/ T221(t) \/ T222(t)

SpecConc == Init /\ [][NextConc]_vars

-----------------------------------------------------------------------------
(* Concurrent arrivals: the calls that touch waiting_queue (join_chat,      *)
(* skip_user and leave) made by three users, step by step as above.  Two    *)
(* users wait at the same time only when their Joins overlap, and a third   *)
(* user is needed to pair the one at the head.                              *)

\* "c"
IdCara == <<99>>

FifoUsers == {IdA, IdBobby, IdCara}

\* An idle thread takes one of the requests of the three users.
Arrive(t, W) == calls < MaxArrivals /\ Accept(t, W)

\* join_chat with no nickname.
ArriveJoin(t) ==
    \E u \in FifoUsers :
        Arrive(t, CallMk(Begin(t, "join_chat", u, "m66"), t, u, None, "j119"))

ArriveSkip(t) == \E u \in FifoUsers : Arrive(t, Begin(t, "skip_user", u, "k172"))

ArriveLeave(t) == \E u \in FifoUsers : Arrive(t, Begin(t, "leave", u, "l204"))

NextFifo ==
    \E t \in Threads :
        \/ ArriveJoin(t) \/ ArriveSkip(t) \/ ArriveLeave(t)
        \/ M66(t) \/ M67(t) \/ M68(t) \/ M69(t)
        \/ P73(t) \/ P74(t)
        \/ U81(t) \/ U83(t) \/ U85a(t) \/ U85b(t)
        \/ J119(t) \/ J120(t) \/ J124(t) \/ J125(t)
        \/ J128(t) \/ J129(t) \/ J133(t) \/ J140(t)
        \/ K172(t) \/ K176(t) \/ K177(t) \/ K181(t) \/ K185(t)
        \/ K187(t) \/ K188(t) \/ K190(t) \/ K195(t)
        \/ L204(t) \/ L205(t) \/ L209(t) \/ L212(t) \/ L213(t)

SpecFifo == Init /\ [][NextFifo]_vars

-----------------------------------------------------------------------------
(* Claims about atomic execution (specification Spec) *)

NoDuplicates(q) == \A i, j \in 1..Len(q) : q[i] = q[j] => i = j

Symmetric(ap) ==
    \A u \in DOMAIN ap : ap[u] \in DOMAIN ap /\ ap[ap[u]] = u

\* C1: in every reachable state no user id occurs twice in waiting_queue, and
\* no user id in waiting_queue is a key of active_pairs.
C1_QueueDisjointNoDup ==
    /\ NoDuplicates(waiting_queue)
    /\ \A i \in 1..Len(waiting_queue) : waiting_queue[i] \notin DOMAIN active_pairs

\* C2: in every reachable state active_pairs is symmetric: the partner of every
\* key is a key whose partner is that key, for every id, the empty string
\* included.
C2_PairsSymmetric == Symmetric(active_pairs)

\* A step that runs the call op(u) to its answer.
StepOf(op, u) == last'.op = op /\ last'.user_id = u /\ (last' /= last \/ St' /= St)

MatchedWithEachOther(A, B) ==
    /\ A \in DOMAIN active_pairs
    /\ B \in DOMAIN active_pairs
    /\ active_pairs[A] = B
    /\ active_pairs[B] = A

\* C3: when A and B are matched with each other and waiting_queue holds no
\* other user, Skip(A) returns waiting, leaves B at the head of waiting_queue
\* and leaves neither A nor B a key of active_pairs.
C3_SkipLeavesPartnerWaiting ==
    [][\A A, B \in Users :
          ( /\ MatchedWithEachOther(A, B)
            /\ \A i \in 1..Len(waiting_queue) : waiting_queue[i] \in {A, B}
            /\ StepOf("skip_user", A) )
          => /\ last'.ret.status = "waiting"
             /\ waiting_queue' /= <<>>
             /\ Head(waiting_queue') = B
             /\ A \notin DOMAIN active_pairs'
             /\ B \notin DOMAIN active_pairs']_vars

InboxOf(ib, u) == IF u \in DOMAIN ib THEN ib[u] ELSE <<>>

\* C4: when A is matched with B, Leave(A) removes both directions from
\* active_pairs, appends the system disconnect message to B's inbox, puts B at
\* the head of waiting_queue, and neither pairs nor enqueues A.
C4_LeaveRequeuesPartner ==
    [][\A A, B \in Users :
          ( /\ A \in DOMAIN active_pairs
            /\ active_pairs[A] = B
            /\ StepOf("leave", A) )
          => /\ A \notin DOMAIN active_pairs'
             /\ B \notin DOMAIN active_pairs'
             /\ InboxOf(inbox', B) = Append(InboxOf(inbox, B), SystemMessage)
             /\ waiting_queue' /= <<>>
             /\ Head(waiting_queue') = B
             /\ ~InQueue(waiting_queue', A)]_vars

Absent(u) ==
    /\ ~InQueue(waiting_queue, u)
    /\ u \notin DOMAIN active_pairs
    /\ u \notin DOMAIN inbox
    /\ u \notin DOMAIN meta

\* C5: in every reachable state every user is in exactly one of three cases:
\* absent from all four structures, in waiting_queue, or a key of active_pairs.
C5_ExactlyOneState ==
    \A u \in Users :
        /\ Absent(u) \/ InQueue(waiting_queue, u) \/ u \in DOMAIN active_pairs
        /\ ~(InQueue(waiting_queue, u) /\ u \in DOMAIN active_pairs)

\* C8: GetMessages(u) returns u's pending messages in the order they were
\* appended and leaves u's inbox empty, so a second GetMessages(u) with nothing
\* in between returns the empty sequence; for a user with no inbox entry it
\* returns the empty sequence and creates no inbox or meta entry.
C8_GetMessagesDrains ==
    [][\A u \in Users :
          StepOf("get_messages", u)
          => /\ last'.ret = [messages |-> InboxOf(inbox, u)]
             /\ inbox' = IF u \in DOMAIN inbox THEN DictSet(inbox, u, <<>>) ELSE inbox
             /\ UNCHANGED <<waiting_queue, active_pairs, meta>>
             /\ (last.op = "get_messages" /\ last.user_id = u
                    => last'.ret.messages = <<>>)]_vars

\* A GetMessages call has returned two different messages and left the inbox
\* empty.
C8_Witness ==
    /\ last.op = "get_messages"
    /\ Len(last.ret.messages) = 2
    /\ last.ret.messages[1] /= last.ret.messages[2]
    /\ inbox[last.user_id] = <<>>

\* C9 as claimed: SendMessage(u, text) with non-blank text by a matched user
\* appends {from: u, text} with the text as passed at the tail of the partner's
\* inbox, returns sent with the partner as target, and changes nothing else.
C9_SendAppendsTextAsPassed ==
    [][\A u \in Users, t \in Texts :
          ( /\ StepOf("send_message", u)
            /\ u \in DOMAIN active_pairs
            /\ StrTruthy(Strip(t))
            /\ SendOf(u, t) )
          => /\ inbox' = InboxAppend(inbox, active_pairs[u], [from |-> u, text |-> t])
             /\ last'.ret = [status |-> "sent", to |-> active_pairs[u]]
             /\ UNCHANGED <<waiting_queue, active_pairs>>]_vars

\* C9 as amended: the appended message carries the text with its leading and
\* trailing whitespace removed.
C9_SendAppendsStrippedText ==
    [][\A u \in Users, t \in Texts :
          ( /\ StepOf("send_message", u)
            /\ u \in DOMAIN active_pairs
            /\ StrTruthy(Strip(t))
            /\ SendOf(u, t) )
          => /\ inbox' = InboxAppend(inbox, active_pairs[u],
                                     [from |-> u, text |-> Strip(t)])
             /\ last'.ret = [status |-> "sent", to |-> active_pairs[u]]
             /\ UNCHANGED <<waiting_queue, active_pairs>>]_vars

\* A SendMessage call has put its message behind an unread one in the
\* partner's inbox.
C9_Witness ==
    /\ last.op = "send_message"
    /\ last.user_id \in DOMAIN active_pairs
    /\ last.ret = [status |-> "sent", to |-> active_pairs[last.user_id]]
    /\ Len(inbox[last.ret.to]) = 2
    /\ inbox[last.ret.to][2].from = last.user_id
    /\ inbox[last.ret.to][1] /= inbox[last.ret.to][2]

\* C10: SendMessage fails with InvalidInput when the trimmed text is empty,
\* whether or not the sender is matched, and with NotMatched when the text is
\* not blank and the sender is not a key of active_pairs; both failures leave
\* waiting_queue, active_pairs, inbox and meta as they were.
C10_SendFailuresChangeNothing ==
    [][\A u \in Users :
          StepOf("send_message", u)
          => \A t \in Texts :
                \/ /\ ~StrTruthy(Strip(t))
                        => last'.ret = InvalidInput /\ St' = St
                   /\ StrTruthy(Strip(t)) /\ u \notin DOMAIN active_pairs
                        => last'.ret = NotMatched /\ St' = St
                \/ ~SendOf(u, t)]_vars

\* A matched user's SendMessage with blank text has failed with InvalidInput.
C10_Witness ==
    /\ last.op = "send_message"
    /\ last.ret = InvalidInput
    /\ last.user_id \in DOMAIN active_pairs

\* C11: Leave is idempotent: in every state a Leave(u) has just produced, a
\* second Leave(u) returns left and changes no part of waiting_queue,
\* active_pairs, inbox or meta, so no other user's state changes either.
C11_LeaveIdempotent ==
    last.op = "leave"
    => /\ last.ret = [status |-> "left"]
       /\ leave(St, last.user_id) = [st |-> St, ret |-> [status |-> "left"]]

\* A Leave has dissolved a pair (the former partner holds the disconnect
\* message) and a second Leave of the same user changes nothing.
C11_Witness ==
    /\ last.op = "leave"
    /\ \E p \in DOMAIN inbox :
          /\ inbox[p] /= <<>>
          /\ inbox[p][Len(inbox[p])] = SystemMessage
    /\ leave(St, last.user_id).st = St

\* C12: after Leave(u) the user u is absent from every structure: not in
\* waiting_queue, neither a key nor a value of active_pairs, with no inbox and
\* no meta entry, and Status(u) returns not_connected.
C12_LeaveRemovesUser ==
    last.op = "leave"
    => /\ Absent(last.user_id)
       /\ \A k \in DOMAIN active_pairs : active_pairs[k] /= last.user_id
       /\ status(St, last.user_id).ret = [status |-> "not_connected"]

\* C13: Join(u) by a user that is neither waiting nor matched: when the queue
\* is not empty its head h is removed, u and h become each other's partner,
\* the call returns matched with partner h and Status(h) then returns matched
\* with u; when the queue is empty u is appended and the call returns waiting.
C13_JoinPairsWithHead ==
    [][\A u \in Users :
          ( /\ StepOf("join_chat", u)
            /\ ~InQueue(waiting_queue, u)
            /\ u \notin DOMAIN active_pairs )
          => IF waiting_queue /= <<>>
             THEN LET h == Head(waiting_queue)
                  IN  /\ waiting_queue' = Tail(waiting_queue)
                      /\ u \in DOMAIN active_pairs'
                      /\ h \in DOMAIN active_pairs'
                      /\ active_pairs'[u] = h
                      /\ active_pairs'[h] = u
                      /\ last'.ret.status = "matched"
                      /\ last'.ret.partner_id = h
                      /\ status(St', h).ret = [status |-> "matched", partner_id |-> u]
             ELSE /\ waiting_queue' = <<u>>
                  /\ last'.ret = Waiting
                  /\ active_pairs' = active_pairs]_vars

\* A Join has been matched with the user that was waiting, and the queue is
\* empty again.
C13_Witness ==
    /\ last.op = "join_chat"
    /\ last.ret.status = "matched"
    /\ MatchedWithEachOther(last.user_id, last.ret.partner_id)
    /\ waiting_queue = <<>>

\* C14: repeated requests of an active user are no-ops: Join(u) by a key of
\* active_pairs returns already_matched with the current partner, Join(u) by a
\* user in waiting_queue returns waiting with u's zero-based position, Skip(u)
\* by a user in waiting_queue returns waiting; each leaves waiting_queue,
\* active_pairs, inbox and meta unchanged.
C14_RepeatedRequestsNoOps ==
    [][\A u \in Users :
          /\ (StepOf("join_chat", u) /\ u \in DOMAIN active_pairs)
                => /\ last'.ret = [status |-> "already_matched",
                                   partner_id |-> active_pairs[u],
                                   icebreaker |-> AlreadyIcebreaker]
                   /\ St' = St
          /\ (StepOf("join_chat", u) /\ InQueue(waiting_queue, u))
                => /\ last'.ret = [status |-> "waiting",
                                   queue_position |-> IndexOf(waiting_queue, u)]
                   /\ St' = St
          /\ (StepOf("skip_user", u) /\ InQueue(waiting_queue, u))
                => /\ last'.ret = Waiting
                   /\ St' = St]_vars

\* C15: whenever Skip(u) or Leave(u) dissolves a pair u<->p, exactly one
\* system disconnect message is appended at the tail of p's inbox, behind the
\* messages p has not read, and no message is put in u's inbox or in the inbox
\* of any third user.
C15_PartnerNotifiedOnce ==
    [][\A u, p \in Users :
          ( /\ StepOf("skip_user", u) \/ StepOf("leave", u)
            /\ u \in DOMAIN active_pairs
            /\ active_pairs[u] = p )
          => /\ InboxOf(inbox', p) = Append(InboxOf(inbox, p), SystemMessage)
             /\ InboxOf(inbox', u) \in {InboxOf(inbox, u), <<>>}
             /\ \A x \in Users \ {u, p} : InboxOf(inbox', x) = InboxOf(inbox, x)]_vars

\* C18: the self-pairing guard is never taken: a Join that answers waiting
\* without a queue position found the queue empty and appended its caller
\* (it did not pop and re-insert a head), a Skip that answers waiting either
\* changed nothing for a caller already waiting or appended its caller to an
\* empty queue, and no user is ever paired with itself.
C18_SelfPairingGuardUnreachable ==
    [][\A u \in Users :
          /\ (StepOf("join_chat", u) /\ last'.ret = Waiting)
                => waiting_queue = <<>> /\ waiting_queue' = <<u>>
          /\ (StepOf("skip_user", u) /\ last'.ret = Waiting)
                => \/ InQueue(waiting_queue, u) /\ St' = St
                   \/ /\ waiting_queue = <<>>
                      /\ waiting_queue' = <<u>>
                      /\ u \in DOMAIN active_pairs => active_pairs[u] /= u
          /\ u \in DOMAIN active_pairs' => active_pairs'[u] /= u]_vars

\* A Skip has popped a queue head (and was matched with it) while another
\* entry stayed in the queue.
C18_Witness ==
    /\ last.op = "skip_user"
    /\ last.ret.status = "matched"
    /\ waiting_queue /= <<>>

\* C19: waiting_queue never holds more than one user, and every queue position
\* a call reports is 0.
C19_QueueAtMostOne ==
    /\ Len(waiting_queue) <= 1
    /\ "queue_position" \in DOMAIN last.ret => last.ret.queue_position = 0

\* A call has reported a queue position for the one waiting user.
C19_Witness ==
    /\ "queue_position" \in DOMAIN last.ret
    /\ waiting_queue = <<last.user_id>>

\* C20: messages only travel between partners: every message a step adds to
\* the inbox of a user p is a system message, or is added by a SendMessage(u)
\* while u is p's partner in active_pairs (p a key with partner u, so p has
\* not left since).
C20_MessagesOnlyBetweenPartners ==
    [][\A p \in Users :
          \A i \in 1..Len(InboxOf(inbox', p)) :
              LET m == InboxOf(inbox', p)[i]
              IN  (i > Len(InboxOf(inbox, p)) /\ m.from /= SystemSender)
                  => /\ last'.op = "send_message"
                     /\ last'.user_id = m.from
                     /\ p \in DOMAIN active_pairs
                     /\ active_pairs[p] = m.from]_vars

-----------------------------------------------------------------------------
(* Claims about concurrent execution (specification SpecConc) *)

Quiescent == \A t \in Threads : threads[t].pc = "idle"

\* C6: when calls run concurrently on several threads each still takes effect
\* as one atomic unit: once the calls have returned, waiting_queue has no
\* duplicate id, no queued user is a key of active_pairs, active_pairs is
\* symmetric, and no call has popped from an empty queue.
C6_ConcurrentCallsAtomic ==
    /\ last.ret /= Raised("IndexError")
    /\ Quiescent =>
          /\ NoDuplicates(waiting_queue)
          /\ \A i \in 1..Len(waiting_queue) :
                waiting_queue[i] \notin DOMAIN active_pairs
          /\ Symmetric(active_pairs)

\* The list object r was not cleared away by a GetMessages call that has
\* already returned: if a GetMessages took it out of inbox, that call still
\* holds it as the result it is about to return.
Deliverable(r, t) ==
    (r.kind = "det" /\ detached[r.n].by = "get_messages")
    => \E t2 \in Threads \ {t} :
          /\ threads[t2].op = "get_messages"
          /\ threads[t2].ref = Some(r)

\* C7: no message is lost when SendMessage and GetMessages interleave: a
\* SendMessage that returns sent has not appended its message to a list that a
\* concurrent GetMessages of the target has cleared away and already returned.
C7_NoMessageLost ==
    [][\A t \in Threads :
          (threads[t].pc = "s155b" /\ threads'[t].pc = "idle")
          => Deliverable(The(threads[t].ref), t)]_vars

\* Thread t has popped the queue head h and has not yet recorded both
\* directions of the pair (it is before line 73 or between lines 73 and 74).
Pairing(t, h) ==
    /\ threads[t].op \in {"join_chat", "skip_user"}
    /\ threads[t].pc \in {"p73", "p74"}
    /\ threads[t].partner = Some(h)

\* C17: a half-completed pairing is never observed: while a Join or Skip is
\* pairing its caller with the popped head h, a concurrent Status(h) does not
\* answer not_connected (h out of waiting_queue and not yet a key of
\* active_pairs), and a concurrent Status of the caller does not answer matched
\* with h while h is not yet a key.
C17_NoHalfPairingObserved ==
    [][\A t1, t2 \in Threads : \A h \in ConcUsers :
          ( /\ t1 /= t2
            /\ Pairing(t1, h)
            /\ threads[t2].op = "status"
            /\ threads[t2].pc /= "idle"
            /\ threads'[t2].pc = "idle" )
          => /\ threads[t2].user_id = h => last'.ret.status /= "not_connected"
             /\ threads[t2].user_id = threads[t1].user_id
                   => (last'.ret.status = "matched" => h \in DOMAIN active_pairs)]_vars

-----------------------------------------------------------------------------
(* Claims about the waiting order (specification SpecFifo) *)

\* A and B are both in the queue q, A ahead of B.
Ahead(q, A, B) == InQueue(q, A) /\ InQueue(q, B) /\ IndexOf(q, A) < IndexOf(q, B)

\* C16: FIFO fairness: when A and B are both waiting with A ahead of B, then
\* as long as A still waits B stays behind A, is taken out of the queue only
\* by its own Leave and is not paired (A is paired, or is at position 0,
\* before B is); and a Join that puts its caller B in the queue puts it behind
\* every user already waiting.
C16_FifoFairness ==
    [][\A A, B \in FifoUsers :
          /\ (A /= B /\ Ahead(waiting_queue, A, B) /\ InQueue(waiting_queue', A))
                => /\ InQueue(waiting_queue', B) => Ahead(waiting_queue', A, B)
                   /\ ~InQueue(waiting_queue', B)
                         => \E t \in Threads :
                               /\ threads[t].op = "leave"
                               /\ threads[t].pc = "l205"
                               /\ threads[t].user_id = B
                   /\ B \notin DOMAIN active_pairs => B \notin DOMAIN active_pairs'
          /\ ( /\ A /= B
               /\ InQueue(waiting_queue, A)
               /\ ~InQueue(waiting_queue, B)
               /\ InQueue(waiting_queue', B)
               /\ \E t \in Threads :
                     /\ threads[t].pc = "j140"
                     /\ threads[t].user_id = B
                     /\ threads'[t].pc = "idle" )
                => Ahead(waiting_queue', A, B)]_vars

\* Two users were waiting; a third user's Join has popped the one at the head
\* and is about to pair with it, while the other still waits, now at
\* position 0.
C16_Witness ==
    \E t \in Threads : \E A, B \in FifoUsers :
        /\ threads[t].op = "join_chat"
        /\ threads[t].pc = "p73"
        /\ threads[t].partner = Some(A)
        /\ waiting_queue = <<B>>
        /\ B \notin {A, threads[t].user_id}
        /\ B \notin DOMAIN active_pairs
        /\ \A t2 \in Threads \ {t} : threads[t2].pc = "idle"
        /\ last = Call("join_chat", B, Waiting)

=============================================================================
